---- MODULE Spec2Model ----
(***************************************************************************)
(* Model of the enrollment admission control (training_event/services.py)  *)
(* and of the record review state machine (training_record/services.py)    *)
(* of TMSFTT-BE.  The database is the committed state; each worker is one   *)
(* request being served.  A transaction's writes become visible in the     *)
(* step that commits it, a failed transaction leaves the database as it    *)
(* was.  The department and teacher synchronisation (auth/tasks.py) is one *)
(* transaction over the tables of departments, groups and users.           *)
(***************************************************************************)
EXTENDS Integers, FiniteSets, Sequences, TLC

\* ------------------------------------------------------------------ bounds
MaxCapacity == 2
MaxScenarioCapacity == 3
NumWorkers == 2
NumUsers == 2
MaxEnrollmentId == 2
MaxRecords == 2
MaxRows == 2
MaxLog == 2
NumDepartments == 3
NumTeachers == 2
NumSyncTeachers == 1
NumSourceDepartments == 2
MaxPasses == 2
MaxFeedEdits == 1

Users == 1..NumUsers
Workers == 1..NumWorkers
\* callers of the no-overbooking scenario: one more than the largest capacity
Callers == 1..(MaxScenarioCapacity + 1)
AllWorkers == Workers \cup Callers
RecordIds == 1..MaxRecords
\* ids a caller may pass: every id that can exist and one that never does
RecordIdInputs == 1..(MaxRecords + 1)

\* ------------------------------------------------------- record statuses
STATUS_SUBMITTED == "SUBMITTED"
STATUS_DEPARTMENT_ADMIN_APPROVED == "DEPARTMENT_ADMIN_APPROVED"
STATUS_DEPARTMENT_ADMIN_REJECTED == "DEPARTMENT_ADMIN_REJECTED"
STATUS_SCHOOL_ADMIN_APPROVED == "SCHOOL_ADMIN_APPROVED"
STATUS_SCHOOL_ADMIN_REJECTED == "SCHOOL_ADMIN_REJECTED"
STATUS_FEEDBACK_REQUIRED == "FEEDBACK_REQUIRED"
STATUS_FEEDBACK_SUBMITTED == "FEEDBACK_SUBMITTED"
\* status of a Record created without an explicit status
STATUS_DEFAULT == STATUS_SUBMITTED

\* ------------------------------------------------------------ outcomes
R_NONE == "none"
R_OK == "ok"
\* BadRequest('报名人数已满')
R_FULL == "capacity_exceeded"
\* IntegrityError of unique_together (campus_event, user)
R_DUPLICATE == "duplicate_enrollment"
\* the store refuses a negative PositiveSmallIntegerField
R_NEGATIVE == "negative_counter"
\* BadRequest('无此培训记录！')
R_NO_RECORD == "no_such_record"
\* BadRequest('无权更改！')
R_ILLEGAL == "illegal_transition"
\* Record.DoesNotExist
R_DOES_NOT_EXIST == "does_not_exist"
\* BadRequest('校外培训活动数据格式无效') or BadRequest('用户无效')
R_BAD_REQUEST == "bad_request"
\* BadRequest of the bulk import
R_BAD_IMPORT == "bad_import"

VARIABLES
    num_participants,   \* CampusEvent.num_participants of the event
    num_enrolled,       \* CampusEvent.num_enrolled, committed value
    enrollments,        \* Enrollment rows of the event: id -> user
    next_enrollment_id, \* next AutoField value of Enrollment
    enrollment_perms,   \* object permissions granted on enrollments
    lock,               \* holder of the event row lock, 0 when free
    records,            \* Record rows: id -> [campus, status]
    log,                \* StatusChangeLog rows in insertion order
    feedbacks,          \* ids of the records that have a CampusEventFeedback
    pc,                 \* where each worker stands in its call
    call,               \* arguments and values read by the call in flight
    last,               \* the call that returned last and its outcome
    departments,        \* Department rows: raw_department_id -> fields
    groups,             \* Group rows: name -> [members, grants]
    users,              \* User rows: username -> fields
    department_information, \* DepartmentInformation rows: dwid -> fields
    teacher_information,    \* TeacherInformation rows: zgh -> fields
    department_id_to_administrative, \* mapping of the last committed pass
    passes,             \* sync passes run so far
    edits               \* changes of the source tables since the last pass

dbEnroll == <<num_participants, num_enrolled, enrollments,
              next_enrollment_id, enrollment_perms>>
dbRecord == <<records, log, feedbacks>>
dbAuth == <<departments, groups, users>>
feed == <<department_information, teacher_information>>
syncVars == <<dbAuth, feed, department_id_to_administrative, passes, edits>>
vars == <<num_participants, num_enrolled, enrollments, next_enrollment_id,
          enrollment_perms, lock, records, log, feedbacks, pc, call, last,
          departments, groups, users, department_information,
          teacher_information, department_id_to_administrative, passes,
          edits>>

NoCall == [op |-> "none", user |-> 0, inst |-> 0, ev |-> 0, rid |-> 0,
           seen |-> ""]

NoResult == [op |-> "none", rid |-> 0, approve |-> FALSE, user |-> 0,
             message |-> << >>,
             outcome |-> R_NONE]

\* a worker takes a new call when it serves none
Free(w) == pc[w] \in {"idle", "returned"}

\* the worker returns (or raises) with outcome r; the call's locals are gone
Finish(w, r) ==
    /\ pc' = [pc EXCEPT ![w] = "returned"]
    /\ last' = [NoResult EXCEPT !.op = call[w].op, !.rid = call[w].rid,
                                !.outcome = r]
    /\ call' = [call EXCEPT ![w] = NoCall]

InitWorkers ==
    /\ pc = [w \in AllWorkers |-> "idle"]
    /\ call = [w \in AllWorkers |-> NoCall]
    /\ last = NoResult

InitEnrollDb ==
    /\ num_enrolled = 0
    /\ enrollments = << >>
    /\ next_enrollment_id = 1
    /\ enrollment_perms = {}
    /\ lock = 0

InitRecordDb ==
    /\ records = << >>
    /\ log = << >>
    /\ feedbacks = {}

\* no department, group or user exists before the first sync pass
InitAuthDb ==
    /\ departments = << >>
    /\ groups = << >>
    /\ users = << >>
    /\ department_id_to_administrative = << >>
    /\ passes = 0
    /\ edits = 0

\* the source tables are empty
InitNoFeed ==
    /\ department_information = << >>
    /\ teacher_information = << >>

\* ------------------------------------------------- EnrollmentService
InFlightCreates == Cardinality({w \in AllWorkers : call[w].op = "create"})

\* create_enrollment is entered: the transaction begins
CreateCall(w, u) ==
    /\ pc' = [pc EXCEPT ![w] = "create_begin"]
    /\ call' = [call EXCEPT ![w] = [NoCall EXCEPT !.op = "create", !.user = u]]
    /\ UNCHANGED <<syncVars, dbEnroll, lock, dbRecord, last>>

CreateBegin(w, u) ==
    /\ Free(w)
    /\ next_enrollment_id + InFlightCreates <= MaxEnrollmentId
    /\ CreateCall(w, u)

\* ------------------------------------------- object permissions
\* None as a department reference, '' as a parent id of the source
NoDepartment == 0 - 1
\* suffix '管理员' of the name of a department's admin group
ADMIN_SUFFIX == "admin"
\* f'{name}-{raw_department_id}-{suffix}', as the parts its hyphens separate
GroupName(name, id, suffix) == name \o <<ToString(id), suffix>>

RECURSIVE Ancestors(_, _, _)
\* the departments above d in the tree deps, nearest first, as far as the
\* parent links lead without repeating
Ancestors(deps, d, seen) ==
    LET p == deps[d].super_department
    IN IF p = NoDepartment \/ p \in seen \/ p \notin DOMAIN deps THEN << >>
       ELSE <<p>> \o Ancestors(deps, p, seen \cup {p})

\* d and the departments above it
ChainOf(deps, d) == <<d>> \o Ancestors(deps, d, {d})

InChain(deps, d) == {ChainOf(deps, d)[i] : i \in 1..Len(ChainOf(deps, d))}

\* the model whose object permissions an enrollment carries
ENROLLMENT_MODEL == "enrollment"

\* a user as the holder of a grant
UserSubject(u) == <<"user", ToString(u)>>

\* the department of user u, None when the user has no row or no department
DepartmentOfUser(usrs, u) ==
    IF u \in DOMAIN usrs THEN usrs[u].department ELSE NoDepartment

\* the admin groups of the department d and of every department above it
AdminGroupsAbove(deps, grps, d) ==
    IF d \notin DOMAIN deps THEN {}
    ELSE {GroupName(deps[c].name, c, ADMIN_SUFFIX) : c \in InChain(deps, d)}
             \cap DOMAIN grps

\* PermissionService.assign_object_permissions(user, instance): the user and
\* the admin group of each department from the user's up to the root are
\* granted the object permissions of the instance's model on the instance
AssignObjectPermissions(perms, deps, grps, usrs, user, model, object) ==
    perms \cup {<<UserSubject(user), model, object>>}
          \cup {<<g, model, object>> :
                   g \in AdminGroupsAbove(deps, grps,
                                           DepartmentOfUser(usrs, user))}

\* select_for_update() without FOR UPDATE: the read does not wait for the lock
CreateLockNoWait(w) ==
    /\ pc[w] = "create_begin"
    /\ lock' = w
    /\ pc' = [pc EXCEPT ![w] = "create_locked"]
    /\ call' = [call EXCEPT ![w].ev = num_enrolled]
    /\ UNCHANGED <<syncVars, dbEnroll, dbRecord, last>>

\* select_for_update().get(): waits for the row lock, then reads the event
CreateLock(w) ==
    /\ pc[w] = "create_begin"
    /\ lock = 0
    /\ lock' = w
    /\ pc' = [pc EXCEPT ![w] = "create_locked"]
    /\ call' = [call EXCEPT ![w].ev = num_enrolled]
    /\ UNCHANGED <<syncVars, dbEnroll, dbRecord, last>>

\* capacity test that lets one caller too many through
HasCapacityOffByOne(enrolled, participants) == ~(enrolled > participants)

\* the capacity test of create_enrollment
HasCapacity(enrolled, participants) == ~(enrolled >= participants)

\* a schema without the unique constraint
UniqueViolationNever(u) == FALSE

\* the unique_together (campus_event, user) constraint
UniqueViolation(u) == \E e \in DOMAIN enrollments : enrollments[e] = u

CreateFull(w) ==
    /\ pc[w] = "create_locked"
    /\ ~HasCapacity(call[w].ev, num_participants)
    /\ lock' = 0
    /\ Finish(w, R_FULL)
    /\ UNCHANGED <<syncVars, dbEnroll, dbRecord>>

CreateDuplicate(w) ==
    /\ pc[w] = "create_locked"
    /\ HasCapacity(call[w].ev, num_participants)
    /\ UniqueViolation(call[w].user)
    /\ lock' = 0
    /\ Finish(w, R_DUPLICATE)
    /\ UNCHANGED <<syncVars, dbEnroll, dbRecord>>

CreateOkOnEvent(w) ==
    /\ pc[w] = "create_locked"
    /\ HasCapacity(call[w].ev, num_participants)
    /\ ~UniqueViolation(call[w].user)
    /\ enrollments' = enrollments @@ (next_enrollment_id :> call[w].user)
    /\ num_enrolled' = call[w].ev + 1
    /\ enrollment_perms' =
           AssignObjectPermissions(enrollment_perms, departments, groups,
                                   users, call[w].user, "campusevent", 1)
    /\ next_enrollment_id' = next_enrollment_id + 1
    /\ lock' = 0
    /\ Finish(w, R_OK)
    /\ UNCHANGED <<syncVars, num_participants, dbRecord>>

CreateOk(w) ==
    /\ pc[w] = "create_locked"
    /\ HasCapacity(call[w].ev, num_participants)
    /\ ~UniqueViolation(call[w].user)
    /\ enrollments' = enrollments @@ (next_enrollment_id :> call[w].user)
    /\ num_enrolled' = call[w].ev + 1
    /\ enrollment_perms' =
           AssignObjectPermissions(enrollment_perms, departments, groups,
                                   users, call[w].user, ENROLLMENT_MODEL,
                                   next_enrollment_id)
    /\ next_enrollment_id' = next_enrollment_id + 1
    /\ lock' = 0
    /\ Finish(w, R_OK)
    /\ UNCHANGED <<syncVars, num_participants, dbRecord>>

\* the view loads the instance and hands it to delete_enrollment
DeleteBegin(w, e) ==
    /\ Free(w)
    /\ e \in DOMAIN enrollments
    /\ pc' = [pc EXCEPT ![w] = "delete_begin"]
    /\ call' = [call EXCEPT ![w] = [NoCall EXCEPT !.op = "delete", !.inst = e,
                                                  !.user = enrollments[e]]]
    /\ UNCHANGED <<syncVars, dbEnroll, lock, dbRecord, last>>

DeleteLock(w) ==
    /\ pc[w] = "delete_begin"
    /\ lock = 0
    /\ lock' = w
    /\ pc' = [pc EXCEPT ![w] = "delete_locked"]
    /\ call' = [call EXCEPT ![w].ev = num_enrolled]
    /\ UNCHANGED <<syncVars, dbEnroll, dbRecord, last>>

\* rows left by instance.delete(): deleting a row that is gone deletes nothing
RowsAfterDelete(rows, e) == [i \in DOMAIN rows \ {e} |-> rows[i]]

DeleteCommit(w) ==
    /\ pc[w] = "delete_locked"
    /\ call[w].ev - 1 >= 0
    /\ num_enrolled' = call[w].ev - 1
    /\ enrollments' = RowsAfterDelete(enrollments, call[w].inst)
    /\ lock' = 0
    /\ Finish(w, R_OK)
    /\ UNCHANGED <<syncVars, num_participants, next_enrollment_id, enrollment_perms,
                   dbRecord>>

\* event.save() with num_enrolled = -1 is refused, the transaction rolls back
DeleteNegative(w) ==
    /\ pc[w] = "delete_locked"
    /\ call[w].ev - 1 < 0
    /\ lock' = 0
    /\ Finish(w, R_NEGATIVE)
    /\ UNCHANGED <<syncVars, dbEnroll, dbRecord>>

InitEnroll ==
    /\ num_participants \in 0..MaxCapacity
    /\ InitEnrollDb
    /\ InitRecordDb
    /\ InitAuthDb
    /\ InitNoFeed
    /\ InitWorkers

NextEnroll ==
    \E w \in Workers :
        \/ \E u \in Users : CreateBegin(w, u)
        \/ CreateLock(w)
        \/ CreateFull(w)
        \/ CreateDuplicate(w)
        \/ CreateOk(w)
        \/ \E e \in 1..MaxEnrollmentId : DeleteBegin(w, e)
        \/ DeleteLock(w)
        \/ DeleteCommit(w)
        \/ DeleteNegative(w)

SpecEnroll == InitEnroll /\ [][NextEnroll]_vars

\* N+1 callers, one per user, each calls create_enrollment once
OverbookCallers == 1..(num_participants + 1)

OverbookBegin(w) ==
    /\ pc[w] = "idle"
    /\ CreateCall(w, w)

\* CreateDuplicate is left out: the callers' users are distinct
NextOverbook ==
    \E w \in OverbookCallers :
        \/ OverbookBegin(w)
        \/ CreateLock(w)
        \/ CreateFull(w)
        \/ CreateOk(w)

InitOverbook ==
    /\ num_participants \in 0..MaxScenarioCapacity
    /\ InitEnrollDb
    /\ InitRecordDb
    /\ InitAuthDb
    /\ InitNoFeed
    /\ InitWorkers

SpecOverbook == InitOverbook /\ [][NextOverbook]_vars

\* ------------------------------------------------ enrollment properties
EnrollmentCount == Cardinality(DOMAIN enrollments)

\* worker w leaves the locked section of create_enrollment in this step
CreateReturns(w) == pc[w] = "create_locked" /\ pc'[w] = "returned"

\* C1: in every committed state 0 <= num_enrolled <= num_participants and
\* num_enrolled is the number of Enrollment rows of the event.
C1_CapacityInvariant ==
    /\ 0 <= num_enrolled
    /\ num_enrolled <= num_participants
    /\ num_enrolled = EnrollmentCount

OverbookDone == \A w \in OverbookCallers : pc[w] = "returned"

\* C2: of N+1 concurrent create_enrollment calls for distinct users on an
\* event of capacity N, each one either succeeds and adds its row or fails
\* with the capacity-exceeded error and adds none; there are never more than
\* N rows, and once all calls have returned there are exactly N.
C2_NoOverbooking ==
    /\ [](EnrollmentCount <= num_participants)
    /\ [](OverbookDone => /\ EnrollmentCount = num_participants
                          /\ num_enrolled = num_participants)
    /\ [][\A w \in AllWorkers : CreateReturns(w) =>
            \/ /\ last'.outcome = R_OK
               /\ EnrollmentCount' = EnrollmentCount + 1
            \/ /\ last'.outcome = R_FULL
               /\ enrollments' = enrollments]_vars

C2_Witness ==
    /\ OverbookDone
    /\ num_participants = MaxScenarioCapacity
    /\ last.outcome = R_FULL
    /\ EnrollmentCount = num_participants

\* C3: a create_enrollment that holds the event lock while
\* num_enrolled >= num_participants fails with the capacity-exceeded error,
\* creates no row and leaves num_enrolled unchanged.
C3_FullIsRejected ==
    [][\A w \in AllWorkers :
          (CreateReturns(w) /\ lock = w /\ num_enrolled >= num_participants)
          => /\ last'.outcome = R_FULL
             /\ enrollments' = enrollments
             /\ num_enrolled' = num_enrolled]_vars

C3_Witness ==
    /\ last.op = "create"
    /\ last.outcome = R_FULL
    /\ num_participants > 0
    /\ num_enrolled = num_participants
    /\ EnrollmentCount = num_participants

UniquePerUser ==
    \A e1, e2 \in DOMAIN enrollments :
        enrollments[e1] = enrollments[e2] => e1 = e2

\* C4 as stated: a create_enrollment for a user who already has an
\* Enrollment of the event fails with the duplicate error and changes nothing.
C4_DuplicateAlwaysDuplicateError ==
    [][\A w \in AllWorkers :
          (CreateReturns(w) /\ UniqueViolation(call[w].user))
          => /\ last'.outcome = R_DUPLICATE
             /\ enrollments' = enrollments
             /\ num_enrolled' = num_enrolled]_vars

\* C4 amended: a create_enrollment for a user who already has an Enrollment
\* of the event fails and changes nothing, with the duplicate error when the
\* event has capacity left and with the capacity-exceeded error when it is
\* full; there is never more than one Enrollment per (user, event).
C4_DuplicateIsRejected ==
    /\ []UniquePerUser
    /\ [][\A w \in AllWorkers :
          (CreateReturns(w) /\ UniqueViolation(call[w].user))
          => /\ last'.outcome = IF num_enrolled >= num_participants
                                THEN R_FULL ELSE R_DUPLICATE
             /\ enrollments' = enrollments
             /\ num_enrolled' = num_enrolled]_vars

C4_Witness ==
    /\ last.op = "create"
    /\ last.outcome = R_DUPLICATE
    /\ EnrollmentCount > 0
    /\ num_enrolled < num_participants

RowsDeleted == DOMAIN enrollments \ DOMAIN enrollments'

\* C5: a committed step deletes an Enrollment row exactly when it decrements
\* num_enrolled by 1, and it deletes at most one row.
C5_DeleteIsAtomic ==
    [][/\ (RowsDeleted # {}) <=> (num_enrolled' = num_enrolled - 1)
       /\ Cardinality(RowsDeleted) <= 1]_vars

\* ----------------------------------------------------- RecordService
RecordCount == Cardinality(DOMAIN records)

IsOffCampus(rid) == rid \in DOMAIN records /\ ~records[rid].campus

\* the filter without campus_event__isnull=True
MatchingRecordsAnyKind(rid) == {r \in DOMAIN records : r = rid}

\* Record.objects.filter(pk=record_id, campus_event__isnull=True)
MatchingRecords(rid) == {r \in DOMAIN records : r = rid /\ ~records[r].campus}

\* create_off_campus_record_from_raw_data: one transaction, status by default
CreateOffCampusRecord(w) ==
    /\ Free(w)
    /\ RecordCount < MaxRecords
    /\ records' = records @@ (RecordCount + 1 :>
                     [campus |-> FALSE, status |-> STATUS_DEFAULT])
    /\ pc' = [pc EXCEPT ![w] = "returned"]
    /\ last' = [NoResult EXCEPT !.op = "create_record",
                                !.rid = RecordCount + 1, !.outcome = R_OK]
    /\ UNCHANGED <<syncVars, dbEnroll, lock, log, feedbacks, call>>

\* the two argument checks ahead of the transaction
CreateOffCampusRecordInvalid(w) ==
    /\ Free(w)
    /\ pc' = [pc EXCEPT ![w] = "returned"]
    /\ last' = [NoResult EXCEPT !.op = "create_record",
                                !.outcome = R_BAD_REQUEST]
    /\ UNCHANGED <<syncVars, dbEnroll, lock, dbRecord, call>>

\* the ids a cell of the sheet may hold: one that exists and one that does not
CampusEventIds == {1}
EventCoefficientIds == {1}
EventIdCells == {1, 2}
UserIdCells == {1, NumUsers + 1}
EventCoefficientIdCells == {1, 2}

\* the rows below the event row of the sheet: cell (index, 0) is a user id,
\* cell (index, 1) an event-coefficient id
SheetRows == UNION {[1..n -> [user : UserIdCells,
                              coef : EventCoefficientIdCells]] :
                    n \in 0..MaxRows}

\* '编号为' + str(int(id)) + what
NotFoundMessage(id, what) == <<"id ", ToString(id), what>>

EVENT_NOT_FOUND == " campus event does not exist"
USER_NOT_FOUND == " user does not exist"
COEFFICIENT_NOT_FOUND == " event coefficient does not exist"

RECURSIVE ImportRows(_, _, _)
\* the loop over the data rows: the records created so far, or the row that
\* raised and the message of its BadRequest
ImportRows(rows, index, created) ==
    IF index > Len(rows)
    THEN [ok |-> TRUE, created |-> created, row |-> 0, message |-> << >>]
    ELSE IF rows[index].user \notin Users
    THEN [ok |-> FALSE, created |-> created, row |-> index,
          message |-> NotFoundMessage(rows[index].user, USER_NOT_FOUND)]
    ELSE IF rows[index].coef \notin EventCoefficientIds
    THEN [ok |-> FALSE, created |-> created, row |-> index,
          message |-> NotFoundMessage(rows[index].coef,
                                      COEFFICIENT_NOT_FOUND)]
    ELSE ImportRows(rows, index + 1,
                    created @@ (RecordCount + Cardinality(DOMAIN created) + 1 :>
                       [campus |-> TRUE,
                        status |-> STATUS_FEEDBACK_REQUIRED]))

\* the body of the transaction: the event of cell (0, 0), then the rows
ImportSheet(event_id, rows) ==
    IF event_id \notin CampusEventIds
    THEN [ok |-> FALSE, created |-> << >>, row |-> 0,
          message |-> NotFoundMessage(event_id, EVENT_NOT_FOUND)]
    ELSE ImportRows(rows, 1, << >>)

\* the rows of an import that raised stay
ImportPersistedPartly(recs, done) ==
    recs @@ done.created

\* with transaction.atomic(): the Record rows after the import, none of its
\* own when it raised
ImportPersisted(recs, done) ==
    IF done.ok THEN recs @@ done.created ELSE recs

\* create_campus_records_from_excel: the rows are written in one transaction
CreateCampusRecords(w, event_id, rows) ==
    /\ Free(w)
    /\ RecordCount + Len(rows) <= MaxRecords
    /\ LET done == ImportSheet(event_id, rows)
       IN  /\ records' = ImportPersisted(records, done)
           /\ last' = [NoResult EXCEPT !.op = "import",
                                       !.rid = done.row,
                                       !.message = done.message,
                                       !.outcome = IF done.ok THEN R_OK
                                                   ELSE R_BAD_IMPORT]
    /\ pc' = [pc EXCEPT ![w] = "returned"]
    /\ UNCHANGED <<syncVars, dbEnroll, lock, log, feedbacks, call>>

\* the call has loaded record rid and goes on to its transaction; seen is the
\* status loaded by a review (create_feedback overwrites the one it loaded)
Loaded(w, op, rid, seen) ==
    /\ Free(w)
    /\ call' = [call EXCEPT ![w] = [NoCall EXCEPT !.op = op, !.rid = rid,
                                       !.seen = seen]]
    /\ UNCHANGED <<syncVars, dbEnroll, lock, dbRecord, last>>

\* a review returns [record, statuschangelog]
Reviewed(w, approve, u) ==
    /\ pc' = [pc EXCEPT ![w] = "returned"]
    /\ last' = [op |-> call[w].op, rid |-> call[w].rid, approve |-> approve,
                message |-> << >>,
                user |-> u, outcome |-> R_OK]
    /\ call' = [call EXCEPT ![w] = NoCall]

\* the call raises before its transaction
Raise(w, op, rid, r) ==
    /\ Free(w)
    /\ pc' = [pc EXCEPT ![w] = "returned"]
    /\ last' = [NoResult EXCEPT !.op = op, !.rid = rid, !.outcome = r]
    /\ UNCHANGED <<syncVars, dbEnroll, lock, dbRecord, call>>

\* the status write of a review: the loaded record is saved with new_status
SaveStatus(rid, new_status) ==
    [records EXCEPT ![rid].status = new_status]

\* a log row that names the new status as the old one
LogEntryPostAsPre(rid, pre, post, u) ==
    [record |-> rid, pre_status |-> post, post_status |-> post, user |-> u]

\* StatusChangeLog.objects.create(...)
LogEntry(rid, pre, post, u) ==
    [record |-> rid, pre_status |-> pre, post_status |-> post, user |-> u]

DeptPost(approve) == IF approve THEN STATUS_DEPARTMENT_ADMIN_APPROVED
                                ELSE STATUS_DEPARTMENT_ADMIN_REJECTED

SchoolPost(approve) == IF approve THEN STATUS_SCHOOL_ADMIN_APPROVED
                                  ELSE STATUS_SCHOOL_ADMIN_REJECTED

\* department_admin_review: no off-campus record has the id
DeptReviewNoRecord(w, rid) ==
    /\ Cardinality(MatchingRecords(rid)) # 1
    /\ Raise(w, "dept", rid, R_NO_RECORD)

\* department_admin_review: the record loaded is not SUBMITTED
DeptReviewIllegal(w, rid) ==
    /\ Cardinality(MatchingRecords(rid)) = 1
    /\ records[rid].status # STATUS_SUBMITTED
    /\ Raise(w, "dept", rid, R_ILLEGAL)

InFlightReviews ==
    Cardinality({w \in AllWorkers : pc[w] \in {"dept_tx", "school_tx"}})

\* room left in the log for the reviews under way and one more
LogHasRoom == Len(log) + InFlightReviews < MaxLog

\* department_admin_review without the test of the status
DeptReviewUnchecked(w, rid) ==
    /\ LogHasRoom
    /\ Cardinality(MatchingRecords(rid)) = 1
    /\ Loaded(w, "dept", rid, records[rid].status)
    /\ pc' = [pc EXCEPT ![w] = "dept_tx"]

\* department_admin_review: the record loaded passes both checks
DeptReviewChecked(w, rid) ==
    /\ LogHasRoom
    /\ Cardinality(MatchingRecords(rid)) = 1
    /\ records[rid].status = STATUS_SUBMITTED
    /\ Loaded(w, "dept", rid, records[rid].status)
    /\ pc' = [pc EXCEPT ![w] = "dept_tx"]

\* department_admin_review: the transaction writes the log row and the
\* status; is_approved and user, first used here, are drawn here
DeptReviewCommit(w, approve, u) ==
    /\ pc[w] = "dept_tx"
    /\ log' = Append(log, LogEntry(call[w].rid, STATUS_SUBMITTED,
                                   DeptPost(approve), u))
    /\ records' = SaveStatus(call[w].rid, DeptPost(approve))
    /\ Reviewed(w, approve, u)
    /\ UNCHANGED <<syncVars, dbEnroll, lock, feedbacks>>

SchoolReviewNoRecord(w, rid) ==
    /\ Cardinality(MatchingRecords(rid)) # 1
    /\ Raise(w, "school", rid, R_NO_RECORD)

SchoolReviewIllegal(w, rid) ==
    /\ Cardinality(MatchingRecords(rid)) = 1
    /\ records[rid].status # STATUS_DEPARTMENT_ADMIN_APPROVED
    /\ Raise(w, "school", rid, R_ILLEGAL)

\* school_admin_review that also takes a record not yet reviewed
SchoolReviewCheckedEarly(w, rid) ==
    /\ LogHasRoom
    /\ Cardinality(MatchingRecords(rid)) = 1
    /\ records[rid].status \in {STATUS_SUBMITTED,
                                 STATUS_DEPARTMENT_ADMIN_APPROVED}
    /\ Loaded(w, "school", rid, records[rid].status)
    /\ pc' = [pc EXCEPT ![w] = "school_tx"]

SchoolReviewChecked(w, rid) ==
    /\ LogHasRoom
    /\ Cardinality(MatchingRecords(rid)) = 1
    /\ records[rid].status = STATUS_DEPARTMENT_ADMIN_APPROVED
    /\ Loaded(w, "school", rid, records[rid].status)
    /\ pc' = [pc EXCEPT ![w] = "school_tx"]

SchoolReviewCommit(w, approve, u) ==
    /\ pc[w] = "school_tx"
    /\ log' = Append(log, LogEntry(call[w].rid,
                                   STATUS_DEPARTMENT_ADMIN_APPROVED,
                                   SchoolPost(approve), u))
    /\ records' = SaveStatus(call[w].rid, SchoolPost(approve))
    /\ Reviewed(w, approve, u)
    /\ UNCHANGED <<syncVars, dbEnroll, lock, feedbacks>>

\* ------------------------------------------- CampusEventFeedbackService
\* create_feedback: Record.objects.get(pk=record.id) finds no row
FeedbackNoRecord(w, rid) ==
    /\ rid \notin DOMAIN records
    /\ Raise(w, "feedback", rid, R_DOES_NOT_EXIST)

\* create_feedback: the related record is loaded, whatever its kind or status
FeedbackLoaded(w, rid) ==
    /\ rid \in DOMAIN records
    /\ Loaded(w, "feedback", rid, "")
    /\ pc' = [pc EXCEPT ![w] = "feedback_tx"]

\* a record has at most one CampusEventFeedback
FeedbackExists(rid) == rid \in feedbacks

\* create_feedback: the insert is refused, the transaction rolls back
FeedbackDuplicate(w) ==
    /\ pc[w] = "feedback_tx"
    /\ FeedbackExists(call[w].rid)
    /\ Finish(w, R_DUPLICATE)
    /\ UNCHANGED <<syncVars, dbEnroll, lock, dbRecord>>

\* create_feedback: the feedback row and the status are written together
FeedbackCommit(w) ==
    /\ pc[w] = "feedback_tx"
    /\ ~FeedbackExists(call[w].rid)
    /\ feedbacks' = feedbacks \cup {call[w].rid}
    /\ records' = SaveStatus(call[w].rid, STATUS_FEEDBACK_SUBMITTED)
    /\ Finish(w, R_OK)
    /\ UNCHANGED <<syncVars, dbEnroll, lock, log>>

InitRecord ==
    /\ num_participants = 0
    /\ InitEnrollDb
    /\ InitRecordDb
    /\ InitAuthDb
    /\ InitNoFeed
    /\ InitWorkers

\* the calls a free worker can make: each runs up to its transaction
RecordCallStarts(w) ==
    \/ CreateOffCampusRecord(w)
    \/ CreateOffCampusRecordInvalid(w)
    \/ \E event_id \in EventIdCells, rows \in SheetRows :
           CreateCampusRecords(w, event_id, rows)
    \/ \E rid \in RecordIdInputs :
           \/ DeptReviewNoRecord(w, rid)
           \/ DeptReviewIllegal(w, rid)
           \/ DeptReviewChecked(w, rid)
           \/ SchoolReviewNoRecord(w, rid)
           \/ SchoolReviewIllegal(w, rid)
           \/ SchoolReviewChecked(w, rid)
           \/ FeedbackNoRecord(w, rid)
           \/ FeedbackLoaded(w, rid)

\* the transactions under way end
RecordCallEnds(w) ==
    \/ \E approve \in BOOLEAN, u \in Users :
           \/ DeptReviewCommit(w, approve, u)
           \/ SchoolReviewCommit(w, approve, u)
    \/ FeedbackDuplicate(w)
    \/ FeedbackCommit(w)

\* requests served concurrently
NextRecord == \E w \in Workers : RecordCallStarts(w) \/ RecordCallEnds(w)

SpecRecord == InitRecord /\ [][NextRecord]_vars

\* requests served one after the other: a call starts when none is under way
NoneUnderWay == \A w \in AllWorkers : Free(w)

NextRecordSeq ==
    \E w \in Workers : (NoneUnderWay /\ RecordCallStarts(w))
                        \/ RecordCallEnds(w)

SpecRecordSeq == InitRecord /\ [][NextRecordSeq]_vars

\* --------------------------------------------------- review properties
\* a call is made that returns within this step: no call under way moves
Direct == call' = call /\ (last' # last \/ pc' # pc)

\* worker w passes the checks of operation op in this step
Enters(w, op) == Free(w) /\ call'[w].op = op

\* worker w commits the transaction of operation op in this step
Commits(w, op) == call[w].op = op /\ pc'[w] = "returned"

RecordsUnchanged == records' = records /\ log' = log /\ feedbacks' = feedbacks

LastLogged == log[Len(log)]

\* C6: a department_admin_review that found its off-campus record SUBMITTED
\* sets the status to DEPARTMENT_ADMIN_APPROVED or _REJECTED by approve and
\* appends one StatusChangeLog row (SUBMITTED, new status, actor) in the
\* step that writes the status; no other step of a department review writes
\* either.
C6_DeptReviewWritesStatusAndLog ==
    [][\A w \in AllWorkers :
         /\ Commits(w, "dept") =>
              /\ call[w].seen = STATUS_SUBMITTED
              /\ last'.outcome = R_OK
              /\ records' = [records EXCEPT ![call[w].rid].status =
                                IF last'.approve
                                THEN STATUS_DEPARTMENT_ADMIN_APPROVED
                                ELSE STATUS_DEPARTMENT_ADMIN_REJECTED]
              /\ log' = Append(log,
                          [record |-> call[w].rid,
                           pre_status |-> STATUS_SUBMITTED,
                           post_status |-> records'[call[w].rid].status,
                           user |-> last'.user])
         /\ (Enters(w, "dept") \/ (Direct /\ last'.op = "dept"))
              => RecordsUnchanged]_vars

C6_Witness ==
    /\ last.op = "dept"
    /\ last.outcome = R_OK
    /\ last.approve
    /\ records[last.rid].status = STATUS_DEPARTMENT_ADMIN_APPROVED
    /\ Len(log) > 0
    /\ LastLogged = [record |-> last.rid, pre_status |-> STATUS_SUBMITTED,
                     post_status |-> STATUS_DEPARTMENT_ADMIN_APPROVED,
                     user |-> last.user]

DeptLogged(rid) ==
    \E i \in 1..Len(log) : /\ log[i].record = rid
                           /\ log[i].pre_status = STATUS_SUBMITTED

\* C7: a department_admin_review goes on to its transaction only for a
\* record it found SUBMITTED and not yet reviewed; on an off-campus record in
\* any other status, such as one a department review has already been logged
\* for, it fails with the illegal-transition error and changes neither the
\* status nor the log.
C7_DeptReviewOnlyFromSubmitted ==
    [][\A w \in AllWorkers :
         /\ Enters(w, "dept") =>
              /\ records[call'[w].rid].status = STATUS_SUBMITTED
              /\ call'[w].seen = STATUS_SUBMITTED
              /\ ~DeptLogged(call'[w].rid)
         /\ Commits(w, "dept") => call[w].seen = STATUS_SUBMITTED
         /\ (/\ Direct
             /\ last'.op = "dept"
             /\ IsOffCampus(last'.rid)
             /\ records[last'.rid].status # STATUS_SUBMITTED
                  \/ DeptLogged(last'.rid))
              => /\ last'.outcome = R_ILLEGAL
                 /\ RecordsUnchanged]_vars

C7_Witness ==
    /\ last.op = "dept"
    /\ last.outcome = R_ILLEGAL
    /\ DeptLogged(last.rid)
    /\ Len(log) = 1
    /\ records[last.rid].status = LastLogged.post_status

\* C8: a department_admin_review or school_admin_review of an id that is no
\* record, or is a record of a campus event, fails with the no-such-record
\* error and changes no status and no log row; only off-campus records are
\* taken to a review transaction.
C8_NoSuchRecord ==
    [][\A w \in AllWorkers :
         /\ (Enters(w, "dept") \/ Enters(w, "school"))
              => IsOffCampus(call'[w].rid)
         /\ (/\ Direct
             /\ last'.op \in {"dept", "school"}
             /\ ~IsOffCampus(last'.rid))
              => /\ last'.outcome = R_NO_RECORD
                 /\ RecordsUnchanged]_vars

C8_Witness ==
    /\ last.op \in {"dept", "school"}
    /\ last.outcome = R_NO_RECORD
    /\ last.rid \in DOMAIN records
    /\ records[last.rid].campus

SchoolStatuses == {STATUS_SCHOOL_ADMIN_APPROVED, STATUS_SCHOOL_ADMIN_REJECTED}

DeptApprovedLogged(rid) ==
    \E i \in 1..Len(log) :
        /\ log[i].record = rid
        /\ log[i].post_status = STATUS_DEPARTMENT_ADMIN_APPROVED

\* C9: a school_admin_review goes on to its transaction only for an
\* off-campus record it found DEPARTMENT_ADMIN_APPROVED, then sets
\* SCHOOL_ADMIN_APPROVED or _REJECTED by approve and appends one log row
\* (DEPARTMENT_ADMIN_APPROVED, new status, actor); from any other status it
\* fails with the illegal-transition error and changes nothing; a record with
\* a school-level status has a logged department approval.
C9_SchoolReviewOnlyAfterDeptApproval ==
    /\ [](\A r \in DOMAIN records :
            records[r].status \in SchoolStatuses => DeptApprovedLogged(r))
    /\ [][\A w \in AllWorkers :
         /\ Enters(w, "school") =>
              /\ records[call'[w].rid].status
                   = STATUS_DEPARTMENT_ADMIN_APPROVED
              /\ call'[w].seen = STATUS_DEPARTMENT_ADMIN_APPROVED
         /\ Commits(w, "school") =>
              /\ call[w].seen = STATUS_DEPARTMENT_ADMIN_APPROVED
              /\ last'.outcome = R_OK
              /\ records' = [records EXCEPT ![call[w].rid].status =
                                IF last'.approve
                                THEN STATUS_SCHOOL_ADMIN_APPROVED
                                ELSE STATUS_SCHOOL_ADMIN_REJECTED]
              /\ log' = Append(log,
                          [record |-> call[w].rid,
                           pre_status |-> STATUS_DEPARTMENT_ADMIN_APPROVED,
                           post_status |-> records'[call[w].rid].status,
                           user |-> last'.user])
         /\ (/\ Direct
             /\ last'.op = "school"
             /\ IsOffCampus(last'.rid)
             /\ records[last'.rid].status # STATUS_DEPARTMENT_ADMIN_APPROVED)
              => /\ last'.outcome = R_ILLEGAL
                 /\ RecordsUnchanged]_vars

C9_Witness ==
    /\ last.op = "school"
    /\ last.outcome = R_OK
    /\ ~last.approve
    /\ records[last.rid].status = STATUS_SCHOOL_ADMIN_REJECTED
    /\ Len(log) = 2
    /\ log[1].post_status = STATUS_DEPARTMENT_ADMIN_APPROVED
    /\ log[2].pre_status = STATUS_DEPARTMENT_ADMIN_APPROVED

RejectedStatuses == {STATUS_DEPARTMENT_ADMIN_REJECTED,
                     STATUS_SCHOOL_ADMIN_REJECTED}

\* C10: once a record is DEPARTMENT_ADMIN_REJECTED or SCHOOL_ADMIN_REJECTED
\* no operation changes its status.
C10_RejectedIsTerminal ==
    [][\A r \in DOMAIN records :
          records[r].status \in RejectedStatuses
          => records'[r].status = records[r].status]_vars

\* ------------------------------------------------ StatusChangeLogViewSet
\* the rows of the log without row i
LogWithout(i) == [j \in 1..(Len(log) - 1) |-> IF j < i THEN log[j]
                                                        ELSE log[j + 1]]

\* DELETE statuschangelog-detail: 204, the row is gone
DestroyStatusChangeLog(i) ==
    /\ NoneUnderWay
    /\ i \in 1..Len(log)
    /\ log' = LogWithout(i)
    /\ last' = [NoResult EXCEPT !.op = "log_destroy", !.outcome = R_OK]
    /\ UNCHANGED <<syncVars, dbEnroll, lock, records, feedbacks, pc, call>>

\* PATCH statuschangelog-detail with {'pre_status': s}: 200, the row is changed
PartialUpdateStatusChangeLog(i, s) ==
    /\ NoneUnderWay
    /\ i \in 1..Len(log)
    /\ log' = [log EXCEPT ![i].pre_status = s]
    /\ last' = [NoResult EXCEPT !.op = "log_update", !.outcome = R_OK]
    /\ UNCHANGED <<syncVars, dbEnroll, lock, records, feedbacks, pc, call>>

\* the services, one call after the other, and the log's REST endpoints
NextLog ==
    \/ NextRecordSeq
    \/ \E i \in 1..MaxLog : DestroyStatusChangeLog(i)
    \/ \E i \in 1..MaxLog :
           PartialUpdateStatusChangeLog(i, STATUS_DEPARTMENT_ADMIN_APPROVED)

SpecLog == InitRecord /\ [][NextLog]_vars

\* ----------------------------------------------- log and feedback properties
StatusChanged(r) ==
    /\ r \in DOMAIN records
    /\ r \in DOMAIN records'
    /\ records'[r].status # records[r].status

\* the step appends exactly one log row, for record r, old status to new status
LoggedChange(r) ==
    /\ Len(log') = Len(log) + 1
    /\ SubSeq(log', 1, Len(log)) = log
    /\ log'[Len(log')].record = r
    /\ log'[Len(log')].pre_status = records[r].status
    /\ log'[Len(log')].post_status = records'[r].status

\* C11: every step that changes the status of a record appends exactly one
\* StatusChangeLog row (that record, status before, status after), and every
\* step that changes the log changes the status of a record in that way.
C11_StatusChangeIsLogged ==
    [][/\ \A r \in DOMAIN records : StatusChanged(r) => LoggedChange(r)
       /\ log' # log => \E r \in DOMAIN records :
                            StatusChanged(r) /\ LoggedChange(r)]_vars

\* C12: the log is append-only: every row written stays at its place with
\* its fields, whatever operation runs.
C12_LogIsAppendOnly ==
    [][/\ Len(log') >= Len(log)
       /\ \A i \in 1..Len(log) : log'[i] = log[i]]_vars

\* C13: a record that has a CampusEventFeedback is FEEDBACK_SUBMITTED in
\* every committed state, and an imported campus-event record leaves
\* FEEDBACK_REQUIRED only in the step that attaches its feedback, for
\* FEEDBACK_SUBMITTED.
C13_FeedbackMeansSubmitted ==
    /\ [](\A r \in feedbacks : records[r].status = STATUS_FEEDBACK_SUBMITTED)
    /\ [][\A r \in DOMAIN records :
             (/\ records[r].campus
              /\ records[r].status = STATUS_FEEDBACK_REQUIRED
              /\ StatusChanged(r))
             => /\ r \in feedbacks' \ feedbacks
                /\ records'[r].status = STATUS_FEEDBACK_SUBMITTED]_vars

\* ------------------------------------------------------------ auth/tasks.py
\* raw_department_id of the school (DLUT_ID = '10141') and its name
DLUT_ID == 0
DLUT_NAME == <<"dlut">>

DepartmentIds == 1..NumDepartments
TeacherIds == 1..NumTeachers
\* a name is the sequence of the parts its hyphens separate: "a" and "a-b"
DepartmentNames == {<<"a">>, <<"a", "b">>}
DepartmentTypes == {"T1"}
\* parent ids a source row may carry: '', the school, any unit id
ParentIds == {NoDepartment, DLUT_ID} \cup DepartmentIds

\* suffixes '管理员' and '专任教师' of the group names, and group '个人权限'
MEMBER_SUFFIX == "member"
PERSONAL_GROUP == <<"personal">>

R_RAISED == "raised"
R_DIVERGES == "diverges"


\* name.startswith(f'{name}-{raw_department_id}-')
StartsWith(group_name, name, id) ==
    /\ Len(group_name) > Len(name) + 1
    /\ SubSeq(group_name, 1, Len(name) + 1) = name \o <<ToString(id)>>

\* group__name__endswith='-专任教师'
IsMemberGroup(group_name) ==
    /\ Len(group_name) >= 2
    /\ group_name[Len(group_name)] = MEMBER_SUFFIX

NewGroup == [members |-> {}, grants |-> 0]

\* Department.objects.get_or_create(raw_department_id=id, defaults={'name': n})
GetOrCreateDepartment(deps, id, n) ==
    IF id \in DOMAIN deps THEN deps
    ELSE deps @@ (id :> [name |-> n, super_department |-> NoDepartment,
                         department_type |-> ""])

\* Group.objects.get_or_create(name=n)
GetOrCreateGroup(grps, n) ==
    IF n \in DOMAIN grps THEN grps ELSE grps @@ (n :> NewGroup)

\* assign_model_perms_for_department: the fixed grant table is applied to the
\* two groups of the department
AssignModelPermsForDepartment(grps, name, id) ==
    [g \in DOMAIN grps |->
        IF g \in {GroupName(name, id, ADMIN_SUFFIX),
                  GroupName(name, id, MEMBER_SUFFIX)}
        THEN [grps[g] EXCEPT !.grants = @ + 1] ELSE grps[g]]

\* the permissions are assigned whether or not the department is new
UpdateGroupAndPermsAlways(grps, name, id, created) ==
    AssignModelPermsForDepartment(
        GetOrCreateGroup(
            GetOrCreateGroup(grps, GroupName(name, id, ADMIN_SUFFIX)),
            GroupName(name, id, MEMBER_SUFFIX)),
        name, id)

\* update_group_and_perms(department, created)
UpdateGroupAndPerms(grps, name, id, created) ==
    LET both == GetOrCreateGroup(
                    GetOrCreateGroup(grps, GroupName(name, id, ADMIN_SUFFIX)),
                    GroupName(name, id, MEMBER_SUFFIX))
    IN IF created THEN AssignModelPermsForDepartment(both, name, id) ELSE both

\* department.child_departments.all()
ChildDepartments(deps, d) ==
    {c \in DOMAIN deps : deps[c].super_department = d}

RECURSIVE Descendants(_, _, _)
\* the departments find_all_child_department visits below the ones in seen
Descendants(deps, seen, n) ==
    LET more == seen \cup UNION {ChildDepartments(deps, d) : d \in seen}
    IN IF n = 0 \/ more = seen THEN seen ELSE Descendants(deps, more, n - 1)

Below(deps, d) ==
    Descendants(deps, ChildDepartments(deps, d), Cardinality(DOMAIN deps))

\* find_all_child_department never returns: a visited department is below itself
RecursesForever(deps, d) ==
    \E c \in {d} \cup Below(deps, d) : c \in Below(deps, c)

\* find_all_child_department(super_department): the leaves under it
FindAllChildDepartment(deps, d) ==
    {c \in {d} \cup Below(deps, d) : ChildDepartments(deps, c) = {}}

\* the eviction of lines 105-110: the teachers of the departments in children
\* lose every member group and their department
Evict(grps, usrs, children) ==
    LET teachers == {u \in DOMAIN usrs : usrs[u].department \in children}
    IN [groups |-> [g \in DOMAIN grps |->
                       IF IsMemberGroup(g)
                       THEN [grps[g] EXCEPT !.members = @ \ teachers]
                       ELSE grps[g]],
        users |-> [u \in DOMAIN usrs |->
                       IF u \in teachers
                       THEN [usrs[u] EXCEPT !.department = NoDepartment]
                       ELSE usrs[u]]]

\* '{dwmc}-{dwid}-{suffix}' for _, dwid, suffix = group.name.split('-')
RenamedGroup(group_name, dwmc) == dwmc \o <<group_name[2], group_name[3]>>

\* the groups of lines 123-128 under their new names, with what they held
RenameGroups(grps, related, dwmc) ==
    LET kept == DOMAIN grps \ related
        renamed == {RenamedGroup(g, dwmc) : g \in related}
    IN [n \in kept \cup renamed |->
           IF n \in kept THEN grps[n]
           ELSE grps[CHOOSE g \in related : RenamedGroup(g, dwmc) = n]]

\* the state a pass works on: the tables inside the transaction, the mapping
\* under construction with its keys in insertion order, and how the pass goes
Working(deps, grps, usrs) ==
    [departments |-> deps, groups |-> grps, users |-> usrs,
     administrative |-> << >>, keys |-> << >>, outcome |-> R_OK]

\* the body of the loop of lines 79-141 for the source row of unit d
SyncDepartment(w, info, d) ==
    LET row == info[d]
        created == d \notin DOMAIN w.departments
        deps1 == GetOrCreateDepartment(w.departments, d, row.dwmc)
        old_name == deps1[d].name
        grps1 == UpdateGroupAndPerms(w.groups, old_name, d, created)
        old_super == deps1[d].super_department
        relink == old_super = NoDepartment \/ old_super # row.lsdw
        lsdw == IF row.lsdw = NoDepartment THEN DLUT_ID ELSE row.lsdw
        \* DepartmentInformation.objects.get(dwid=lsdw) finds no row
        unknown_parent == relink /\ lsdw # DLUT_ID /\ lsdw \notin DOMAIN info
        super_name == IF lsdw = DLUT_ID \/ lsdw \notin DOMAIN info
                      THEN DLUT_NAME ELSE info[lsdw].dwmc
        super_created == lsdw \notin DOMAIN deps1
        deps2 == IF relink THEN GetOrCreateDepartment(deps1, lsdw, super_name)
                           ELSE deps1
        grps2 == IF relink
                 THEN UpdateGroupAndPerms(grps1, deps2[lsdw].name, lsdw,
                                          super_created)
                 ELSE grps1
        evicting == relink /\ old_super # NoDepartment
        \* RecursionError of find_all_child_department
        overflow == evicting /\ RecursesForever(deps2, old_super)
        ev == IF evicting
              THEN Evict(grps2, w.users,
                         FindAllChildDepartment(deps2, old_super))
              ELSE [groups |-> grps2, users |-> w.users]
        super == IF relink THEN lsdw ELSE old_super
        rename == old_name # row.dwmc
        related == {g \in DOMAIN ev.groups : StartsWith(g, old_name, d)}
        \* ValueError: the name does not split into three parts
        bad_split == rename /\ \E g \in related : Len(g) # 3
        \* IntegrityError: the new name is taken
        clash == /\ rename
                 /\ ~bad_split
                 /\ \E g \in related :
                        RenamedGroup(g, row.dwmc) \in DOMAIN ev.groups
        grps3 == IF rename THEN RenameGroups(ev.groups, related, row.dwmc)
                           ELSE ev.groups
        deps3 == [deps2 EXCEPT ![d] = [name |-> row.dwmc,
                                       super_department |-> super,
                                       department_type |-> row.dwlx]]
        \* department.super_department.super_department, as loaded before
        \* the department itself is saved
        grand == deps2[super].super_department
        own == super = DLUT_ID \/ grand = DLUT_ID
    IN IF unknown_parent \/ overflow \/ bad_split \/ clash
       THEN [w EXCEPT !.outcome = R_RAISED]
       ELSE [w EXCEPT !.departments = deps3,
                      !.groups = grps3,
                      !.users = ev.users,
                      !.administrative =
                          (d :> (IF own THEN d ELSE super)) @@ @,
                      !.keys = Append(@, d)]

RECURSIVE SyncDepartments(_, _, _)
\* the loop of lines 79-141 over the rows in the order given: the first
\* exception ends it
SyncDepartments(w, info, order) ==
    IF order = << >> \/ w.outcome # R_OK THEN w
    ELSE SyncDepartments(SyncDepartment(w, info, Head(order)), info,
                         Tail(order))

RECURSIVE ChaseAdministrative(_, _, _)
\* the while loop of update_administrative from department_id: KeyError when
\* a department is not a key, no end when the mapping has a cycle
ChaseAdministrative(map, department_id, same_administrative) ==
    IF department_id \notin DOMAIN map
    THEN [outcome |-> R_RAISED, administrative |-> NoDepartment, same |-> {}]
    ELSE IF map[department_id] = department_id
    THEN [outcome |-> R_OK, administrative |-> department_id,
          same |-> same_administrative]
    ELSE IF department_id \in same_administrative
    THEN [outcome |-> R_DIVERGES, administrative |-> NoDepartment,
          same |-> {}]
    ELSE ChaseAdministrative(map, map[department_id],
                             same_administrative \cup {department_id})

RECURSIVE UpdateAdministrative(_, _)
\* update_administrative over the keys in insertion order
UpdateAdministrative(w, keys) ==
    IF keys = << >> \/ w.outcome # R_OK THEN w
    ELSE LET c == ChaseAdministrative(w.administrative, Head(keys), {})
         IN IF c.outcome # R_OK THEN [w EXCEPT !.outcome = c.outcome]
            ELSE UpdateAdministrative(
                     [w EXCEPT !.administrative =
                         [k \in DOMAIN @ |-> IF k \in c.same
                                             THEN c.administrative ELSE @[k]]],
                     Tail(keys))

RECURSIVE DepartmentChain(_, _, _, _)
\* the walk of update_user_groups from dep up to the school: the departments
\* whose member group the handler is given.  Group.DoesNotExist when a group
\* of the chain is missing, AttributeError when the chain ends at None, no end
\* when the chain has a cycle
DepartmentChain(deps, grps, dep, seen) ==
    IF dep = NoDepartment
    THEN [outcome |-> R_RAISED, chain |-> {}]
    ELSE IF GroupName(deps[dep].name, dep, MEMBER_SUFFIX) \notin DOMAIN grps
    THEN [outcome |-> R_RAISED, chain |-> {}]
    ELSE IF dep = DLUT_ID
    THEN [outcome |-> R_OK, chain |-> seen \cup {dep}]
    ELSE IF dep \in seen
    THEN [outcome |-> R_DIVERGES, chain |-> {}]
    ELSE DepartmentChain(deps, grps, deps[dep].super_department,
                         seen \cup {dep})

\* update_user_groups(user.groups.add, dep, dlut) when add, and
\* update_user_groups(user.groups.remove, dep, dlut) otherwise
UpdateUserGroups(deps, grps, u, dep, add) ==
    LET c == DepartmentChain(deps, grps, dep, {})
        names == {GroupName(deps[d].name, d, MEMBER_SUFFIX) : d \in c.chain}
    IN [outcome |-> c.outcome,
        groups |-> [g \in DOMAIN grps |->
                       IF g \in names
                       THEN [grps[g] EXCEPT !.members =
                                IF add THEN @ \cup {u} ELSE @ \ {u}]
                       ELSE grps[g]]]

\* the memberships are left as they are
LeaveMemberGroupsNot(grps, u) ==
    grps

\* UserGroup.objects.filter(user=user,
\*                          group__name__endswith='-专任教师').delete()
LeaveMemberGroups(grps, u) ==
    [g \in DOMAIN grps |->
        IF IsMemberGroup(g) THEN [grps[g] EXCEPT !.members = @ \ {u}]
                            ELSE grps[g]]

\* the body of the loop of lines 168-211 for the source row of teacher u;
\* dwid_to_department has the units of info as its keys
SyncTeacher(w, info, tinfo, u) ==
    LET created == u \notin DOMAIN w.users
        user == IF created
                THEN [department |-> NoDepartment,
                      administrative_department |-> NoDepartment]
                ELSE w.users[u]
        grps0 == IF created
                 THEN [w.groups EXCEPT ![PERSONAL_GROUP].members = @ \cup {u}]
                 ELSE w.groups
        xy == tinfo[u].xy
        left == IF user.department # NoDepartment
                THEN UpdateUserGroups(w.departments, grps0, u,
                                      user.department, FALSE)
                ELSE [outcome |-> R_OK, groups |-> grps0]
        joined == UpdateUserGroups(w.departments, left.groups, u, xy, TRUE)
    IN IF xy \notin DOMAIN info
       THEN [w EXCEPT !.groups = LeaveMemberGroups(grps0, u),
                      !.users = (u :> [user EXCEPT !.department =
                                          NoDepartment]) @@ @]
       ELSE IF user.department = xy
       THEN [w EXCEPT !.groups = grps0, !.users = (u :> user) @@ @]
       ELSE IF left.outcome # R_OK
       THEN [w EXCEPT !.outcome = left.outcome]
       ELSE IF joined.outcome # R_OK
       THEN [w EXCEPT !.outcome = joined.outcome]
       ELSE [w EXCEPT !.groups = joined.groups,
                      !.users = (u :> [department |-> xy,
                                       administrative_department |->
                                           w.administrative[xy]]) @@ @]

RECURSIVE SyncTeachers(_, _, _, _)
\* the loop of lines 168-211: the first exception ends it
SyncTeachers(w, info, tinfo, order) ==
    IF order = << >> \/ w.outcome # R_OK THEN w
    ELSE SyncTeachers(SyncTeacher(w, info, tinfo, Head(order)), info, tinfo,
                      Tail(order))

RECURSIVE Ascending(_)
\* the elements of a set of numbers in increasing order
Ascending(S) ==
    IF S = {} THEN << >>
    ELSE LET m == CHOOSE x \in S : \A y \in S : x <= y
         IN <<m>> \o Ascending(S \ {m})

Descending(S) ==
    LET a == Ascending(S) IN [i \in 1..Len(a) |-> a[Len(a) + 1 - i]]

\* the orders in which a query without order_by yields the rows of a table
RowOrders(table) == {Ascending(DOMAIN table), Descending(DOMAIN table)}

\* _update_from_department_information()
UpdateFromDepartmentInformation(deps, grps, usrs, info, order) ==
    LET w0 == Working(GetOrCreateDepartment(deps, DLUT_ID, DLUT_NAME),
                      grps, usrs)
        w1 == SyncDepartments(w0, info, order)
    IN UpdateAdministrative(w1, w1.keys)

\* _update_from_teacher_information(dwid_to_department,
\*                                  department_id_to_administrative)
UpdateFromTeacherInformation(w, info, tinfo) ==
    IF w.outcome # R_OK THEN w
    ELSE SyncTeachers([w EXCEPT !.groups =
                                   GetOrCreateGroup(@, PERSONAL_GROUP)],
                      info, tinfo, Ascending(DOMAIN tinfo))

\* update_teachers_and_departments_information() up to its commit, for the
\* teacher rows tinfo
PassOn(order, tinfo) ==
    UpdateFromTeacherInformation(
        UpdateFromDepartmentInformation(departments, groups, users,
                                        department_information, order),
        department_information, tinfo)

Pass(order) == PassOn(order, teacher_information)

PassEnds(r) ==
    /\ passes' = passes + 1
    /\ edits' = 0
    /\ last' = [NoResult EXCEPT !.op = "sync", !.outcome = r]
    /\ UNCHANGED <<dbEnroll, lock, dbRecord, pc, call, feed>>

\* the pass returned r and its transaction commits
SyncCommits(r) ==
    /\ r.outcome = R_OK
    /\ departments' = r.departments
    /\ groups' = r.groups
    /\ users' = r.users
    /\ department_id_to_administrative' = r.administrative
    /\ PassEnds(R_OK)

\* the pass raises and its transaction rolls back
SyncRaises(r) ==
    /\ r.outcome = R_RAISED
    /\ PassEnds(R_RAISED)
    /\ UNCHANGED <<dbAuth, department_id_to_administrative>>

\* the pass never returns: nothing is committed
SyncDiverges(r) ==
    /\ r.outcome = R_DIVERGES
    /\ PassEnds(R_DIVERGES)
    /\ UNCHANGED <<dbAuth, department_id_to_administrative>>

\* update_teachers_and_departments_information(), the rows read in order
UpdateTeachersAndDepartmentsInformation(order) ==
    /\ passes < MaxPasses
    /\ LET r == Pass(order)
       IN SyncCommits(r) \/ SyncRaises(r) \/ SyncDiverges(r)

\* the source system changes one row of a table between two passes
FeedChanges ==
    /\ passes < MaxPasses
    /\ edits < MaxFeedEdits
    /\ edits' = edits + 1
    /\ UNCHANGED <<dbEnroll, lock, dbRecord, pc, call, last, dbAuth,
                   department_id_to_administrative, passes>>

DepartmentRows ==
    [dwmc : DepartmentNames, lsdw : ParentIds, dwlx : DepartmentTypes]

SetDepartmentInformation(d, row) ==
    /\ IF d \in DOMAIN department_information
       THEN department_information[d] # row ELSE TRUE
    /\ department_information' = (d :> row) @@ department_information
    /\ UNCHANGED teacher_information
    /\ FeedChanges

DeleteDepartmentInformation(d) ==
    /\ d \in DOMAIN department_information
    /\ department_information' =
           [x \in DOMAIN department_information \ {d} |->
               department_information[x]]
    /\ UNCHANGED teacher_information
    /\ FeedChanges

SetTeacherInformation(u, xy) ==
    /\ IF u \in DOMAIN teacher_information
       THEN teacher_information[u].xy # xy ELSE TRUE
    /\ teacher_information' = (u :> [xy |-> xy]) @@ teacher_information
    /\ UNCHANGED department_information
    /\ FeedChanges

\* partial tables: a row for some of the keys
Tables(keys, rows) == UNION {[ks -> rows] : ks \in SUBSET keys}

InitSync ==
    /\ num_participants = 0
    /\ InitEnrollDb
    /\ InitRecordDb
    /\ InitAuthDb
    /\ InitWorkers
    /\ department_information \in Tables(DepartmentIds, DepartmentRows)
    /\ teacher_information \in Tables(1..NumSyncTeachers,
                                      [xy : DepartmentIds])

NextSync ==
    \/ \E order \in RowOrders(department_information) :
           UpdateTeachersAndDepartmentsInformation(order)
    \/ \E d \in DepartmentIds :
           \/ \E row \in DepartmentRows : SetDepartmentInformation(d, row)
           \/ DeleteDepartmentInformation(d)
    \/ \E u \in 1..NumSyncTeachers, xy \in DepartmentIds :
           SetTeacherInformation(u, xy)

SpecSync == InitSync /\ [][NextSync]_vars

\* the pass over a source of few departments and every teacher: a teacher row
\* may name a department the source never had, or one it has no more
SourceDepartmentIds == 1..NumSourceDepartments

InitSyncTeachers ==
    /\ num_participants = 0
    /\ InitEnrollDb
    /\ InitRecordDb
    /\ InitAuthDb
    /\ InitWorkers
    /\ department_information \in Tables(SourceDepartmentIds, DepartmentRows)
    /\ teacher_information \in Tables(TeacherIds, [xy : DepartmentIds])

NextSyncTeachers ==
    \/ \E order \in RowOrders(department_information) :
           UpdateTeachersAndDepartmentsInformation(order)
    \/ \E d \in SourceDepartmentIds : DeleteDepartmentInformation(d)
    \/ \E u \in TeacherIds, xy \in DepartmentIds :
           SetTeacherInformation(u, xy)

SpecSyncTeachers == InitSyncTeachers /\ [][NextSyncTeachers]_vars

\* ----------------------------------------------------- sync properties
\* this step is a sync pass, and one that commits
PassStep == passes' = passes + 1
PassCommits == PassStep /\ last'.outcome = R_OK

\* some pass has committed: the school exists from the first commit on
PassHasCommitted == DLUT_ID \in DOMAIN departments


\* the chain of d ends at the school
UnderSchool(deps, d) ==
    ChainOf(deps, d)[Len(ChainOf(deps, d))] = DLUT_ID

\* d is the school or a direct child of the school
TopLevel(deps, d) == d = DLUT_ID \/ deps[d].super_department = DLUT_ID

\* the nearest of d and its ancestors that is the school or a child of it
NearestTopLevel(deps, d) ==
    LET c == ChainOf(deps, d)
        i == CHOOSE k \in 1..Len(c) :
                 TopLevel(deps, c[k]) /\ \A j \in 1..(k - 1) :
                                             ~TopLevel(deps, c[j])
    IN c[i]

\* C14: after a sync pass the administrative department of a department under
\* the school is the department itself when it is a direct child of the
\* school, and otherwise its nearest ancestor that is one.
C14_AdministrativeIsTopLevel ==
    \A d \in DOMAIN department_id_to_administrative :
        UnderSchool(departments, d)
        => department_id_to_administrative[d]
               = NearestTopLevel(departments, d)

Idempotent(map) ==
    \A d \in DOMAIN map : map[d] \in DOMAIN map /\ map[map[d]] = map[d]

\* C15 as stated: the mapping of a committed pass is idempotent and maps the
\* school to itself.
C15_IdempotentWithRoot ==
    PassHasCommitted
    => /\ Idempotent(department_id_to_administrative)
       /\ DLUT_ID \in DOMAIN department_id_to_administrative
       /\ department_id_to_administrative[DLUT_ID] = DLUT_ID

\* C15: the mapping of a committed pass is idempotent, admin(admin(D)) =
\* admin(D) for every department D of the source; the school is not a key
\* of the mapping.
C15_Idempotent ==
    /\ Idempotent(department_id_to_administrative)
    /\ DLUT_ID \notin DOMAIN department_id_to_administrative

\* a committed mapping that sends a department beyond its parent
C15_Witness ==
    \E d \in DOMAIN department_id_to_administrative :
        /\ department_id_to_administrative[d] # d
        /\ department_id_to_administrative[d]
               # departments[d].super_department

\* a source row names as its parent a unit that is not in the source
DanglingParent(info) ==
    \E d \in DOMAIN info :
        info[d].lsdw \notin {NoDepartment, DLUT_ID} \cup DOMAIN info

\* C16: a pass over a source with a department row whose parent id names a
\* unit absent from the source raises, and departments, groups, memberships
\* and users stay what they were.
C16_MalformedFeedAborts ==
    [][(PassStep /\ DanglingParent(department_information))
       => (last'.outcome = R_RAISED /\ UNCHANGED dbAuth)]_vars

\* the departments the committed pass moved to another place under the school
Moved ==
    {d \in DOMAIN department_information \cap DOMAIN departments :
        /\ departments[d].super_department # NoDepartment
        /\ departments'[d].super_department
               # departments[d].super_department
        /\ UnderSchool(departments, d)
        /\ UnderSchool(departments', d)}

MemberGroupOf(deps, d) == GroupName(deps[d].name, d, MEMBER_SUFFIX)

\* user u is in the member group of department d
IsMember(deps, grps, u, d) ==
    /\ MemberGroupOf(deps, d) \in DOMAIN grps
    /\ u \in grps[MemberGroupOf(deps, d)].members

\* C17: when a committed pass gives department D another parent, a user who
\* belonged to D or to a department below D is afterwards in the member
\* group of a department of D's old ancestor chain only if that department
\* is on the chain of the user's department after the pass.
C17_MovedSubtreeLeavesOldChain ==
    [][PassCommits =>
        \A d \in Moved :
            \A u \in DOMAIN users :
                users[u].department \in {d} \cup Below(departments, d)
                => \A a \in InChain(departments,
                                    departments[d].super_department) :
                       IsMember(departments', groups', u, a)
                       => /\ users'[u].department # NoDepartment
                          /\ a \in InChain(departments',
                                           users'[u].department)]_vars

\* the departments the source renames
Renamed ==
    {d \in DOMAIN department_information \cap DOMAIN departments :
        department_information[d].dwmc # departments[d].name}

\* the source differs from the persisted tables in department names only
OnlyNamesDiffer ==
    /\ \A d \in DOMAIN department_information :
           /\ d \in DOMAIN departments
           /\ department_information[d].lsdw
                  = departments[d].super_department
           /\ department_information[d].lsdw
                  \in {DLUT_ID} \cup DOMAIN department_information
    /\ \A u \in DOMAIN teacher_information :
           /\ u \in DOMAIN users
           /\ users[u].department = teacher_information[u].xy
           /\ teacher_information[u].xy \in DOMAIN department_information

\* the name a group has after the renaming of the departments in Renamed
NameAfterRenaming(g) ==
    IF \E d \in Renamed : g \in {GroupName(departments[d].name, d, ADMIN_SUFFIX),
                                 GroupName(departments[d].name, d, MEMBER_SUFFIX)}
    THEN LET d == CHOOSE x \in Renamed :
                      g \in {GroupName(departments[x].name, x, ADMIN_SUFFIX),
                             GroupName(departments[x].name, x, MEMBER_SUFFIX)}
         IN GroupName(department_information[d].dwmc, d, g[Len(g)])
    ELSE g

\* C18: a pass over a source that differs from the persisted tables only in
\* the names of departments commits; each group of a renamed department has
\* the new name with the same id and suffix and holds the members and
\* grants it held, and every other group is as it was.
C18_RenameKeepsGroups ==
    [][(PassStep /\ OnlyNamesDiffer /\ Renamed # {})
       => /\ last'.outcome = R_OK
          /\ DOMAIN groups' = {NameAfterRenaming(g) : g \in DOMAIN groups}
          /\ \A g \in DOMAIN groups :
                 groups'[NameAfterRenaming(g)] = groups[g]]_vars

\* the chain of d up to and including a, the whole chain when a is not on it
ChainUpTo(deps, d, a) ==
    LET c == ChainOf(deps, d)
    IN IF \E i \in 1..Len(c) : c[i] = a
       THEN {c[j] : j \in 1..(CHOOSE i \in 1..Len(c) : c[i] = a)}
       ELSE InChain(deps, d)

\* C19: a user with a department is in the member group of exactly the
\* departments from the user's department up to and including the user's
\* administrative department.
C19_MembershipMirrorsChain ==
    \A u \in DOMAIN users :
        users[u].department # NoDepartment
        => {d \in DOMAIN departments : IsMember(departments, groups, u, d)}
               = ChainUpTo(departments, users[u].department,
                           users[u].administrative_department)

\* the teacher rows that name a unit the source does not have
UnknownDepartmentRows ==
    {u \in DOMAIN teacher_information :
        teacher_information[u].xy \notin DOMAIN department_information}

\* the table without the row of key u
WithoutRow(table, u) == [k \in DOMAIN table \ {u} |-> table[k]]

\* the groups with user u taken out of every member set
WithoutMember(grps, u) ==
    [g \in DOMAIN grps |-> [grps[g] EXCEPT !.members = @ \ {u}]]

\* the pass over the rows in this order ends as it would end without the
\* row of teacher u, and when it commits every other user and every group's
\* other members are what they would be without that row
SameWithoutRow(order, u) ==
    LET with == Pass(order)
        without == PassOn(order, WithoutRow(teacher_information, u))
    IN /\ with.outcome = without.outcome
       /\ with.outcome = R_OK
          => /\ with.departments = without.departments
             /\ with.administrative = without.administrative
             /\ WithoutRow(with.users, u) = WithoutRow(without.users, u)
             /\ WithoutMember(with.groups, u)
                    = WithoutMember(without.groups, u)

\* C20: a teacher row that names a unit absent from the source does not
\* change how the pass ends; when the pass commits, the user of that row
\* exists, has no department and is in no member group, and every other row
\* is processed as it would be without that row.
C20_UnknownDepartmentTolerated ==
    [][PassStep =>
        \A u \in UnknownDepartmentRows :
            /\ \A order \in RowOrders(department_information) :
                   SameWithoutRow(order, u)
            /\ last'.outcome = R_OK
               => /\ u \in DOMAIN users'
                  /\ users'[u].department = NoDepartment
                  /\ \A g \in DOMAIN groups' :
                         IsMemberGroup(g) => u \notin groups'[g].members]_vars

\* a committed pass detached a user who had a department before it, while
\* the row of another teacher was processed and that user put in the
\* department it names
C20_Witness ==
    /\ last.op = "sync"
    /\ last.outcome = R_OK
    /\ \E u \in UnknownDepartmentRows :
           /\ u \in DOMAIN users
           /\ users[u].department = NoDepartment
           /\ users[u].administrative_department # NoDepartment
           /\ \A g \in DOMAIN groups :
                  IsMemberGroup(g) => u \notin groups[g].members
           /\ \E v \in DOMAIN teacher_information \ UnknownDepartmentRows :
                  /\ v > u
                  /\ v \in DOMAIN users
                  /\ users[v].department = teacher_information[v].xy
                  /\ IsMember(departments, groups, v, users[v].department)

\* ------------------------------------------------ concurrent requests
\* the log rows of record rid that leave status pre
TransitionsFrom(rid, pre) ==
    {i \in 1..Len(log) : log[i].record = rid /\ log[i].pre_status = pre}

\* the rows of record rid, the last one written last
LogOf(rows, rid) == SelectSeq(rows, LAMBDA entry : entry.record = rid)

LastOf(rows) == rows[Len(rows)]

\* C29: of the reviews of one record that run at the same time at most one
\* succeeds: the log holds at most one row for the department review of a
\* record and at most one for its school review, and the status a review
\* writes is the post_status of the last row of the record.
C29_OneReviewWins ==
    /\ [](\A rid \in DOMAIN records :
            /\ Cardinality(TransitionsFrom(rid, STATUS_SUBMITTED)) <= 1
            /\ Cardinality(TransitionsFrom(
                   rid, STATUS_DEPARTMENT_ADMIN_APPROVED)) <= 1)
    /\ [][\A w \in AllWorkers :
            (Commits(w, "dept") \/ Commits(w, "school"))
            => /\ last'.outcome = R_OK
               /\ LogOf(log', call[w].rid) # << >>
               /\ records'[call[w].rid].status
                      = LastOf(LogOf(log', call[w].rid)).post_status]_vars

\* worker w ends the transaction of delete_enrollment in this step
DeleteReturns(w) == pc[w] = "delete_locked" /\ pc'[w] = "returned"

\* C30: a delete_enrollment whose Enrollment row is gone by the time it holds
\* the event's lock does not decrement num_enrolled, and num_enrolled is
\* never below the number of Enrollment rows of the event.
C30_NoSecondDecrement ==
    /\ [](num_enrolled >= EnrollmentCount)
    /\ [][\A w \in AllWorkers :
            (DeleteReturns(w) /\ call[w].inst \notin DOMAIN enrollments)
            => num_enrolled' = num_enrolled]_vars

\* ------------------------------------------- properties of the closure
\* unit d of the source is above itself by the parent ids of the source
RECURSIVE ReachesBySource(_, _, _, _)
ReachesBySource(info, d, target, n) ==
    IF n = 0 \/ d \notin DOMAIN info THEN FALSE
    ELSE \/ info[d].lsdw = target
         \/ ReachesBySource(info, info[d].lsdw, target, n - 1)

SourceHasCycle(info) ==
    \E d \in DOMAIN info :
        ReachesBySource(info, d, d, Cardinality(DOMAIN info))

\* C25: every pass ends, by committing or by raising, and a pass over a
\* source whose parent ids form a cycle ends by raising.
C25_ClosureTerminates ==
    [][PassStep =>
        /\ last'.outcome \in {R_OK, R_RAISED}
        /\ SourceHasCycle(department_information)
           => last'.outcome = R_RAISED]_vars

\* the two groups of department d
GroupsOf(deps, d) == {GroupName(deps[d].name, d, ADMIN_SUFFIX),
                      GroupName(deps[d].name, d, MEMBER_SUFFIX)}

\* C26 as stated: every department that exists has its two groups, and the
\* model permissions have been applied to them exactly once.
C26_EveryDepartmentOnce ==
    \A d \in DOMAIN departments :
        \A g \in GroupsOf(departments, d) :
            g \in DOMAIN groups /\ groups[g].grants = 1

\* C26 amended: every department other than the school has its two groups
\* from the pass that creates it, with the model permissions applied exactly
\* once however many passes follow; the school, created at the start of the
\* first pass, gets its groups when a unit is first attached to it, and the
\* pass never applies the model permissions to them.
C26_PermsAssignedOnce ==
    \A d \in DOMAIN departments :
        \A g \in GroupsOf(departments, d) :
            IF d = DLUT_ID
            THEN g \in DOMAIN groups => groups[g].grants = 0
            ELSE g \in DOMAIN groups /\ groups[g].grants = 1

\* the second pass has committed over a unit it had seen before, with a
\* department kept whose row the source has dropped, and the school's groups
C26_Witness ==
    /\ passes = 2
    /\ last.outcome = R_OK
    /\ \E d \in DOMAIN departments \ {DLUT_ID} :
           d \notin DOMAIN department_information
    /\ DOMAIN department_information # {}
    /\ DOMAIN department_information \subseteq DOMAIN departments
    /\ GroupsOf(departments, DLUT_ID) \subseteq DOMAIN groups

\* C27: after a committed pass a user with a department of the source has
\* as administrative department the one the pass computed for that
\* department.
C27_UsersFollowTheMapping ==
    (PassHasCommitted /\ last.op = "sync" /\ last.outcome = R_OK)
    => \A u \in DOMAIN users :
           users[u].department \in DOMAIN department_id_to_administrative
           => users[u].administrative_department
                  = department_id_to_administrative[users[u].department]

\* the parent links of the departments
ParentLinks(deps) == [d \in DOMAIN deps |-> deps[d].super_department]

\* C28: the passes over the rows of the source read in any two orders end
\* alike, and when they commit they give the same mapping and the same
\* parent links.
C28_OrderIndependent ==
    [][PassStep =>
        \A o1, o2 \in RowOrders(department_information) :
            /\ Pass(o1).outcome = Pass(o2).outcome
            /\ Pass(o1).outcome = R_OK
               => /\ Pass(o1).administrative = Pass(o2).administrative
                  /\ ParentLinks(Pass(o1).departments)
                         = ParentLinks(Pass(o2).departments)]_vars

\* ------------------------------------------ properties of the import
\* an id of the sheet names nothing
Unresolvable(event_id, rows) ==
    \/ event_id \notin CampusEventIds
    \/ \E i \in 1..Len(rows) : \/ rows[i].user \notin Users
                               \/ rows[i].coef \notin EventCoefficientIds

\* C22: an import of a sheet with an event id, user id or event-coefficient
\* id that names nothing fails with BadRequest and leaves the Record rows as
\* they were, the rows ahead of the offending one included; an import of a
\* sheet whose ids all resolve adds one Record per row.
C22_ImportAllOrNothing ==
    [][\A w \in Workers, event_id \in EventIdCells, rows \in SheetRows :
          CreateCampusRecords(w, event_id, rows)
          => IF Unresolvable(event_id, rows)
             THEN last'.outcome = R_BAD_IMPORT /\ records' = records
             ELSE /\ last'.outcome = R_OK
                  /\ Cardinality(DOMAIN records') = RecordCount + Len(rows)
                  /\ \A r \in DOMAIN records : records'[r] = records[r]]_vars

\* an import failed at its second data row and no Record exists
C22_Witness ==
    /\ last.op = "import"
    /\ last.outcome = R_BAD_IMPORT
    /\ last.rid = 2
    /\ RecordCount = 0

\* the first data row whose user id or event-coefficient id names nothing
FirstBadRow(rows) ==
    CHOOSE i \in 1..Len(rows) :
        /\ rows[i].user \notin Users \/ rows[i].coef \notin EventCoefficientIds
        /\ \A j \in 1..(i - 1) : /\ rows[j].user \in Users
                                 /\ rows[j].coef \in EventCoefficientIds

\* '第{n}行，编号为{id}的用户不存在' and '第{n}行，编号为{id}的活动系数不存在',
\* the data row of index i being row i + 1 of the sheet
RowMessage(rows, i) ==
    <<"row ", ToString(i + 1), ", ">>
    \o (IF rows[i].user \notin Users
        THEN NotFoundMessage(rows[i].user, USER_NOT_FOUND)
        ELSE NotFoundMessage(rows[i].coef, COEFFICIENT_NOT_FOUND))

\* C23: the BadRequest of an import that fails at a data row names the
\* number of that row and the id that names nothing.
C23_FailureNamesRow ==
    [][\A w \in Workers, rows \in SheetRows :
          (/\ CreateCampusRecords(w, 1, rows)
           /\ Unresolvable(1, rows))
          => last'.message = RowMessage(rows, FirstBadRow(rows))]_vars

\* ------------------------------------------- RecordService.close_record
\* Record.STATUS_CLOSED
STATUS_CLOSED == "CLOSED"

\* close_record(record_id, user) of a campus-event record or of an id no
\* record has: BadRequest('无此培训记录！')
CloseRecordNoRecord(rid) ==
    /\ NoneUnderWay
    /\ Cardinality(MatchingRecords(rid)) # 1
    /\ last' = [NoResult EXCEPT !.op = "close", !.rid = rid,
                                !.outcome = R_NO_RECORD]
    /\ UNCHANGED <<syncVars, dbEnroll, lock, dbRecord, pc, call>>

\* close_record of a SCHOOL_ADMIN_APPROVED off-campus record:
\* BadRequest('无权更改！')
CloseRecordIllegal(rid) ==
    /\ NoneUnderWay
    /\ Cardinality(MatchingRecords(rid)) = 1
    /\ records[rid].status = STATUS_SCHOOL_ADMIN_APPROVED
    /\ last' = [NoResult EXCEPT !.op = "close", !.rid = rid,
                                !.outcome = R_ILLEGAL]
    /\ UNCHANGED <<syncVars, dbEnroll, lock, dbRecord, pc, call>>

\* close_record of a DEPARTMENT_ADMIN_APPROVED off-campus record: the record
\* is returned CLOSED
CloseRecordCommit(rid) ==
    /\ NoneUnderWay
    /\ Cardinality(MatchingRecords(rid)) = 1
    /\ records[rid].status = STATUS_DEPARTMENT_ADMIN_APPROVED
    /\ records' = SaveStatus(rid, STATUS_CLOSED)
    /\ last' = [NoResult EXCEPT !.op = "close", !.rid = rid,
                                !.outcome = R_OK]
    /\ UNCHANGED <<syncVars, dbEnroll, lock, log, feedbacks, pc, call>>

\* the services, one call after the other, close_record among them
NextClose ==
    \/ NextRecordSeq
    \/ \E rid \in RecordIdInputs :
           \/ CloseRecordNoRecord(rid)
           \/ CloseRecordIllegal(rid)
           \/ CloseRecordCommit(rid)

SpecClose == InitRecord /\ [][NextClose]_vars

\* C24: close_record of an off-campus record closes it when its status is
\* SCHOOL_ADMIN_APPROVED and fails with the illegal-transition error from
\* every other status; for a campus-event record or an id no record has it
\* fails with the no-such-record error; a failed call changes no status.
C24_CloseOnlyAfterSchoolApproval ==
    [][(Direct /\ last'.op = "close") =>
        IF Cardinality(MatchingRecords(last'.rid)) # 1
        THEN last'.outcome = R_NO_RECORD /\ records' = records
        ELSE IF records[last'.rid].status = STATUS_SCHOOL_ADMIN_APPROVED
        THEN /\ last'.outcome = R_OK
             /\ records' = SaveStatus(last'.rid, STATUS_CLOSED)
        ELSE last'.outcome = R_ILLEGAL /\ records' = records]_vars

\* --------------------------------- enrollment under a department tree
\* the users who administer a department
AdminUsers == (NumUsers + 1)..(NumUsers + 2)

\* the school, unit 1 under it, and unit 2 under the school or under unit 1
TreeWith(parent_of_2) ==
    (DLUT_ID :> [name |-> DLUT_NAME, super_department |-> NoDepartment,
                 department_type |-> ""])
    @@ (1 :> [name |-> <<"a">>, super_department |-> DLUT_ID,
              department_type |-> "T1"])
    @@ (2 :> [name |-> <<"a", "b">>, super_department |-> parent_of_2,
              department_type |-> "T1"])

\* the unit under the school on the way up from d, the school for itself
TopUnitOf(deps, d) ==
    IF d \notin DOMAIN deps THEN NoDepartment
    ELSE IF Len(ChainOf(deps, d)) = 1 THEN d
    ELSE ChainOf(deps, d)[Len(ChainOf(deps, d)) - 1]

\* the admin group of every department, with the admins of admin_of in it
AdminGroupsWith(deps, admin_of) ==
    LET name(d) == GroupName(deps[d].name, d, ADMIN_SUFFIX)
    IN [g \in {name(d) : d \in DOMAIN deps} |->
           [members |-> {a \in AdminUsers :
                            name(admin_of[a]) = g},
            grants |-> IF g = name(DLUT_ID) THEN 0 ELSE 1]]

\* the database after a sync: a department tree, its admin groups, the
\* enrolling users and the admins with their departments
InitEnrollPerm ==
    /\ num_participants \in 0..MaxCapacity
    /\ InitEnrollDb
    /\ InitRecordDb
    /\ InitNoFeed
    /\ InitWorkers
    /\ \E parent_of_2 \in {DLUT_ID, 1},
          admin_of \in [AdminUsers -> {DLUT_ID, 1, 2}],
          department_of \in [Users -> {NoDepartment, 1, 2}] :
          LET deps == TreeWith(parent_of_2)
              home == department_of @@ admin_of
          IN /\ departments = deps
             /\ groups = AdminGroupsWith(deps, admin_of)
             /\ users = [u \in Users \cup AdminUsers |->
                            [department |-> home[u],
                             administrative_department |->
                                 TopUnitOf(deps, home[u])]]
             /\ department_id_to_administrative =
                    [d \in {1, 2} |-> TopUnitOf(deps, d)]
    /\ passes = 1
    /\ edits = 0

SpecEnrollPerm == InitEnrollPerm /\ [][NextEnroll]_vars

\* user u holds the object permissions of the model on the object: by a grant
\* of his own or by one of a group he is a member of
HoldsPerm(perms, grps, u, model, object) ==
    \/ <<UserSubject(u), model, object>> \in perms
    \/ \E g \in DOMAIN grps :
           u \in grps[g].members /\ <<g, model, object>> \in perms

\* worker w returns from create_enrollment with the enrollment created
CreateReturnsOk(w) ==
    /\ pc[w] = "create_locked"
    /\ pc'[w] = "returned"
    /\ last'.outcome = R_OK

====
